---- MODULE Spec2Model ----
(***************************************************************************)
(* Model of scripts/xiangshan.py: the idle-core-window finder              *)
(* get_free_cores(n) and the process table / CPU utilisation it samples.   *)
(*                                                                         *)
(* Python sequences are 0-based; command lines, names and regex groups are *)
(* modelled as sequences of one-character strings (1-based in TLA+), core  *)
(* indices and core_usage keep Python's 0-based indexing.                  *)
(***************************************************************************)
EXTENDS Integers, Sequences, FiniteSets, TLC

\* ------------------------------------------------------------------ bounds
MaxCores == 4      \* hosts with 1..MaxCores physical cores, sampled per core
MaxN     == 4      \* requested window sizes 1..MaxN on those hosts
MaxProcs == 2      \* processes listed by one scan of the process table
BigCores == 64     \* one large two-socket host ...
BigN     == 8      \* ... and the window size requested on it
MaxTargets == 3    \* workloads in a CI suite

\* ------------------------------------------------- thresholds of the source
UsagePerCore == 30     \* sum(window_usage) < 30 * n
CoreBusy     == 90     \* x > 90

\* ------------------------------------------------------ character sequences
NUMACTL == <<"n","u","m","a","c","t","l">>
DASH_C  == <<"-","C">>
DASH_M  == <<"-","m">>
EMU     == <<"e","m","u">>
SSH     == <<"s","s","h">>
SSHD    == <<"s","s","h","d">>
SH      == <<"s","h">>
HOST    == <<"h","o","s","t">>

DigitChars == <<"0","1","2","3","4","5","6","7","8","9">>

IsDigit(c) == \E d \in 1..10 : DigitChars[d] = c

DigitVal(c) == (CHOOSE d \in 1..10 : DigitChars[d] = c) - 1

\* str(k) as produced by an f-string for a non-negative int
RECURSIVE Str(_)
Str(k) == IF k < 10 THEN <<DigitChars[k + 1]>>
          ELSE Str(k \div 10) \o <<DigitChars[(k % 10) + 1]>>

\* int(s) for a string of decimal digits (leading zeros allowed)
RECURSIVE ParseInt(_)
ParseInt(ds) == IF Len(ds) = 0 THEN 0
                ELSE 10 * ParseInt(SubSeq(ds, 1, Len(ds) - 1)) + DigitVal(ds[Len(ds)])

\* ' '.join(proc.cmdline())
RECURSIVE Join(_)
Join(words) == IF Len(words) = 0 THEN <<>>
               ELSE IF Len(words) = 1 THEN words[1]
               ELSE words[1] \o <<" ">> \o Join(Tail(words))

\* sub in s   (Python substring test)
LitAt(s, k, lit) == /\ k >= 1
                    /\ k + Len(lit) - 1 <= Len(s)
                    /\ \A j \in 1..Len(lit) : s[k + j - 1] = lit[j]

Contains(sub, s) == \E k \in 1..(Len(s) + 1) : LitAt(s, k, sub)

SetMax(S) == CHOOSE x \in S : \A y \in S : y <= x

\* ------------------------------------------------------------ numa_re.match
\* r'.*numactl +.*-C +([0-9]+)-([0-9]+).*' applied with re.match: anchored at
\* the start only, '.' matches any character but a newline, every quantifier
\* is greedy.

NoNewline(s, a, b) == \A k \in a..b : s[k] # "\n"

\* index of the last character of the longest run of characters satisfying
\* the class, starting at k (k - 1 when the run is empty)
RECURSIVE SpacesEnd(_, _)
SpacesEnd(s, k) == IF k <= Len(s) /\ s[k] = " " THEN SpacesEnd(s, k + 1) ELSE k - 1

RECURSIVE DigitsEnd(_, _)
DigitsEnd(s, k) == IF k <= Len(s) /\ IsDigit(s[k]) THEN DigitsEnd(s, k + 1) ELSE k - 1

\* '.*numactl +' with "numactl" starting at a
NumactlAt(s, a) == /\ LitAt(s, a, NUMACTL)
                   /\ a + 7 <= Len(s)
                   /\ s[a + 7] = " "
                   /\ NoNewline(s, 1, a - 1)

\* '-C +([0-9]+)-([0-9]+)' with "-C" starting at c
PinAt(s, c) ==
    /\ LitAt(s, c, DASH_C)
    /\ LET e == SpacesEnd(s, c + 2) + 1      \* first character of group 1
           f == DigitsEnd(s, e)              \* last character of group 1
           g == DigitsEnd(s, f + 2)          \* last character of group 2
       IN  /\ e > c + 2
           /\ f >= e
           /\ f + 1 <= Len(s)
           /\ s[f + 1] = "-"
           /\ g >= f + 2

\* the pairs (start of "numactl", start of "-C") of all ways to match
MatchStarts(s) ==
    { p \in (1..Len(s)) \X (1..Len(s)) :
        /\ NumactlAt(s, p[1])
        /\ p[2] >= p[1] + 8
        /\ NoNewline(s, p[1] + 8, p[2] - 1)
        /\ PinAt(s, p[2]) }

\* the match object: <<>> for None, else <<group(1), group(2)>>.  The first
\* '.*' is greedy (latest "numactl"), then the second (latest "-C").
numa_match(s) ==
    IF MatchStarts(s) = {} THEN <<>>
    ELSE LET a == SetMax({ p[1] : p \in MatchStarts(s) })
             c == SetMax({ p[2] : p \in { q \in MatchStarts(s) : q[1] = a } })
             e == SpacesEnd(s, c + 2) + 1
             f == DigitsEnd(s, e)
             g == DigitsEnd(s, f + 2)
         IN  << SubSeq(s, e, f), SubSeq(s, f + 2, g) >>

\* range(a, b) as a set
PyRange(a, b) == a..(b - 1)

\* ------------------------------------------------------- the process table
\* What psutil reports for one process: cmdline(), name(), and the exception
\* (if any) that inspecting it raises and the call that raises it.
Proc(cmdline, name, raises, at) ==
    [cmdline |-> cmdline, name |-> name, raises |-> raises, at |-> at]

RangeArg(a, b) == Str(a) \o <<"-">> \o Str(b)

\* the command line run_emu builds for a pinned emulator
Pinned(node, a, b) == <<NUMACTL, DASH_M, Str(node), DASH_C, RangeArg(a, b), EMU>>

Catalog ==
    << Proc(Pinned(0, 0, 0), EMU, "none", "-"),
       Proc(Pinned(0, 0, 1), SH, "none", "-"),
       Proc(Pinned(0, 1, 2), EMU, "none", "-"),
       Proc(Pinned(1, 2, 3), EMU, "none", "-"),
       \* not pinned at all
       Proc(<<EMU, <<"-","i">>, <<"0","-","3">> >>, EMU, "none", "-"),
       \* "-C" range before "numactl", which ends the line
       Proc(<<EMU, DASH_C, RangeArg(0, 3), NUMACTL>>, EMU, "none", "-"),
       \* a single core, no range
       Proc(<<NUMACTL, DASH_C, Str(2), EMU>>, EMU, "none", "-"),
       \* "numactl" on the second line of a shell script
       Proc(<<SH, <<"-","c">>, <<"\n">> \o Join(Pinned(0, 0, 3))>>, SH, "none", "-"),
       \* remote-login helpers carrying a pinned command line
       Proc(<<SSH, HOST>> \o Pinned(0, 0, 3), SSH, "none", "-"),
       Proc(<<SSHD>> \o Pinned(0, 0, 3), SSHD, "none", "-"),
       \* inspection fails
       Proc(Pinned(0, 0, 3), EMU, "NoSuchProcess", "cmdline"),
       Proc(Pinned(0, 0, 3), EMU, "AccessDenied", "cmdline"),
       Proc(Pinned(0, 0, 3), EMU, "ZombieProcess", "name"),
       Proc(<<EMU>>, EMU, "ZombieProcess", "name"),
       \* two ranges, leading zeros, an empty range
       Proc(<<NUMACTL, DASH_C, RangeArg(0, 1), DASH_C, <<"0","2","-","0","3">>, EMU>>, EMU, "none", "-"),
       Proc(Pinned(0, 3, 2), EMU, "none", "-") >>

AllPids    == 1..Len(Catalog)
PinnedPids == 1..4

\* every process table a scan can see: at most MaxProcs processes
Tables(pids) == UNION { [1..k -> pids] : k \in 0..MaxProcs }

\* an except clause that forgets zombies
Caught_two == {"NoSuchProcess", "AccessDenied"}

\* the exceptions named by the except clause of line 638
Caught == {"NoSuchProcess", "AccessDenied", "ZombieProcess"}

\* the exception the try body raises for one process ("none" when it runs to
\* its end): cmdline() is always called, name() only after a match
Raised(p) ==
    IF p.raises # "none" /\ p.at = "cmdline" THEN p.raises
    ELSE IF /\ p.raises # "none"
            /\ p.at = "name"
            /\ numa_match(Join(p.cmdline)) # <<>> THEN p.raises
    ELSE "none"

\* the same without the test on the process name
ProcCores_anyname(p) ==
    IF Raised(p) # "none" THEN {}
    ELSE LET m == numa_match(Join(p.cmdline))
         IN  IF m = <<>> THEN {}
             ELSE PyRange(ParseInt(m[1]), ParseInt(m[2]) + 1)

\* the same with the name test excluding every shell
ProcCores_sh(p) ==
    IF Raised(p) # "none" THEN {}
    ELSE LET m == numa_match(Join(p.cmdline))
         IN  IF m = <<>> THEN {}
             ELSE IF Contains(SH, p.name) THEN {}
             ELSE PyRange(ParseInt(m[1]), ParseInt(m[2]) + 1)

\* lines 633-639 for one process: the cores it adds to disable_cores
ProcCores(p) ==
    IF Raised(p) # "none" THEN {}
    ELSE LET joint == Join(p.cmdline)
             m     == numa_match(joint)
         IN  IF m = <<>> THEN {}
             ELSE IF Contains(SSH, p.name) THEN {}
             ELSE PyRange(ParseInt(m[1]), ParseInt(m[2]) + 1)

Reserves == [pid \in AllPids |-> ProcCores(Catalog[pid])]

\* the exception that leaves the try statement of lines 633-639 for one process
Escapes == [pid \in AllPids |->
              IF Raised(Catalog[pid]) \in Caught THEN "none" ELSE Raised(Catalog[pid])]

\* the for loop over psutil.process_iter(): set(disable_cores) afterwards
RECURSIVE ScanCores(_)
ScanCores(table) ==
    IF Len(table) = 0 THEN {}
    ELSE ScanCores(SubSeq(table, 1, Len(table) - 1)) \cup Reserves[table[Len(table)]]

\* the first exception that escapes the loop ("none": the loop completes)
RECURSIVE ScanError(_)
ScanError(table) ==
    IF Len(table) = 0 THEN "none"
    ELSE IF Escapes[Head(table)] # "none" THEN Escapes[Head(table)]
    ELSE ScanError(Tail(table))

\* ------------------------------------------------------------ CPU samples
UsageLevels == {0, 30, 90, 91}

Hosts == { h \in [phys : 1..MaxCores, logical : 1..MaxCores] :
             h.logical = h.phys \/ h.logical = 2 * h.phys }

BigHost == [phys |-> BigCores, logical |-> BigCores]

Configs     == { [host |-> h, n |-> k] : h \in Hosts, k \in 1..MaxN }
BigConfigs  == { [host |-> BigHost, n |-> BigN] }

\* one reading per logical CPU
Samples(l) == [0..(l - 1) -> UsageLevels]

\* every aligned group of w CPUs is idle as a whole or saturated as a whole
GroupSamples(l, w) ==
    { [k \in 0..(l - 1) |-> IF (k \div w) \in busy THEN 100 ELSE 0] :
        busy \in SUBSET (0..((l - 1) \div w)) }

\* --------------------------------------------------------- get_free_cores
VARIABLES n, cpu, pc, retried, procs, disable_cores, num_logical_core,
          core_usage, i, ret, err

\* A second instance of the script on the same host: `parked` holds its
\* get_free_cores locals while the other instance is the one taking steps, `me`
\* names the instance whose locals the variables above are, and `running`
\* lists the emulators the instances have started (in the process table).
VARIABLES me, parked, running

\* What the iteration before the current one worked with: its reserved cores
\* and its sample, as they were when it went to sleep (<<>> before any retry).
VARIABLE seen

\* XiangShan.run and what it calls: position, parsed arguments, the workloads
\* the suite look-up returns, the actions or workloads still to run, the
\* frame run_emu returns to, the code kept while
\* artifacts are copied, the copies issued, the commands run so far with the
\* values __exec_cmd returned, the last command's fate, and run's result.
VARIABLES xpc, args, suite, todo, caller, held, kcopy, log, last, result

finder == <<n, cpu, pc, retried, procs, disable_cores, num_logical_core,
            core_usage, i, ret, err>>

peers == <<me, parked, running>>

wrapper == <<xpc, args, suite, todo, caller, held, kcopy, log, last, result>>

vars == <<n, cpu, pc, retried, procs, disable_cores, num_logical_core,
          core_usage, i, ret, err, me, parked, running,
          xpc, args, suite, todo, caller, held, kcopy, log, last, result, seen>>

\* a single instance that calls get_free_cores directly
NoPeer == me = 1 /\ parked = <<>> /\ running = <<>>

NoWrapper ==
    /\ xpc = "none"
    /\ args = <<>>
    /\ suite = <<>>
    /\ todo = <<>>
    /\ caller = "none"
    /\ held = 0
    /\ kcopy = 0
    /\ log = <<>>
    /\ last = <<>>
    /\ result = "none"

InitWith(configs) ==
    /\ \E c \in configs : n = c.n /\ cpu = c.host
    /\ pc = "scan"
    /\ retried = FALSE
    /\ procs = <<>>
    /\ disable_cores = {}
    /\ num_logical_core = 0
    /\ core_usage = <<>>
    /\ i = -1
    /\ ret = <<>>
    /\ err = "none"
    /\ NoPeer
    /\ NoWrapper
    /\ seen = <<>>

\* a scan that extends the list of the iteration before
ScanTable_keep(table) ==
    /\ pc = "scan"
    /\ procs' = table
    /\ IF ScanError(table) = "none"
       THEN /\ disable_cores' = disable_cores \cup ScanCores(table)
            /\ pc' = "sample"
            /\ err' = err
       ELSE /\ disable_cores' = disable_cores
            /\ pc' = "error"
            /\ err' = ScanError(table)
    /\ UNCHANGED <<n, cpu, retried, num_logical_core, core_usage, i, ret>>
    /\ UNCHANGED <<peers, wrapper, seen>>

\* lines 631-639: one pass over the process table, which lists `table`
ScanTable(table) ==
    /\ pc = "scan"
    /\ procs' = table
    /\ IF ScanError(table) = "none"
       THEN /\ disable_cores' = ScanCores(table)
            /\ pc' = "sample"
            /\ err' = err
       ELSE /\ disable_cores' = disable_cores
            /\ pc' = "error"
            /\ err' = ScanError(table)
    /\ UNCHANGED <<n, cpu, retried, num_logical_core, core_usage, i, ret>>
    /\ UNCHANGED <<peers, wrapper, seen>>

Scan(pids) == pc = "scan" /\ \E table \in Tables(pids) : ScanTable(table)

\* lines 640-641: cpu_count(logical=False) and one cpu_percent(percpu=True)
Sample(samples) ==
    /\ pc = "sample"
    /\ num_logical_core' = cpu.phys
    /\ core_usage' \in samples
    /\ pc' = "select"
    /\ UNCHANGED <<n, cpu, retried, procs, disable_cores, i, ret, err>>
    /\ UNCHANGED <<peers, wrapper, seen>>

\* rounding the window count up instead of down
num_window_ceil == (num_logical_core + n - 1) \div n

\* a window count that misses the window ending at the last core
num_window_short == (num_logical_core - 1) \div n

num_window == num_logical_core \div n

\* core_usage[w * n : w * n + n] (a slice stops at the end of the list)
WindowCores(w) == { k \in PyRange(w * n, w * n + n) : k \in DOMAIN core_usage }

RECURSIVE SumOver(_, _)
SumOver(u, S) == IF S = {} THEN 0
                 ELSE LET k == CHOOSE x \in S : TRUE
                      IN  u[k] + SumOver(u, S \ {k})

\* rejecting a core at exactly the per-core threshold
Accepted_ge(w) ==
    /\ SumOver(core_usage, WindowCores(w)) < UsagePerCore * n
    /\ ~ \E k \in WindowCores(w) : core_usage[k] >= CoreBusy

\* leaving out the per-core test
Accepted_sum(w) == SumOver(core_usage, WindowCores(w)) < UsagePerCore * n

\* line 647
Accepted(w) ==
    /\ SumOver(core_usage, WindowCores(w)) < UsagePerCore * n
    /\ ~ \E k \in WindowCores(w) : core_usage[k] > CoreBusy

\* skipping a window only when all of it is reserved
Blocked_whole(w) == PyRange(w * n, w * n + n) \subseteq disable_cores

\* line 644
Blocked(w) == disable_cores \cap PyRange(w * n, w * n + n) # {}

\* the for loop of lines 643-648 from window w on: the window it returns
\* from, or -1 when it runs to the end
RECURSIVE FirstFree(_)
FirstFree(w) ==
    IF w >= num_window THEN -1
    ELSE IF Blocked(w) THEN FirstFree(w + 1)
    ELSE IF Accepted(w) THEN w
    ELSE FirstFree(w + 1)

\* dividing by the core count instead of half of it
NumaNode_whole(start) == (start % num_logical_core) \div num_logical_core

\* line 648
NumaNode(start) == (start % num_logical_core) \div (num_logical_core \div 2)

Triple(w) == <<NumaNode(w * n), w * n, w * n + n - 1>>

\* lines 642-649: pick a window and return, or fall through to the sleep
Select ==
    /\ pc = "select"
    /\ LET w == FirstFree(0)
       IN  IF w = -1
           THEN /\ pc' = "sleep"
                /\ i' = IF num_window > 0 THEN num_window - 1 ELSE i
                /\ UNCHANGED <<ret, err>>
           ELSE IF num_logical_core \div 2 = 0
           THEN /\ pc' = "error"
                /\ err' = "ZeroDivisionError"
                /\ i' = w
                /\ UNCHANGED ret
           ELSE /\ pc' = "done"
                /\ ret' = Triple(w)
                /\ i' = w
                /\ UNCHANGED err
    /\ UNCHANGED <<n, cpu, retried, procs, disable_cores, num_logical_core, core_usage>>
    /\ UNCHANGED <<peers, wrapper, seen>>

\* lines 649-650, and back to the top of the while loop.  Both lists of the
\* finished iteration are dead here: disable_cores is rebound to [] on line
\* 631 and core_usage is rebound on line 641 before it is read again.
Sleep ==
    /\ pc = "sleep"
    /\ pc' = "scan"
    /\ retried' = TRUE
    /\ procs' = <<>>
    /\ disable_cores' = {}
    /\ core_usage' = <<>>
    /\ UNCHANGED <<n, cpu, num_logical_core, i, ret, err>>
    /\ UNCHANGED <<peers, wrapper, seen>>

\* lines 649-650 as Python runs them: the names disable_cores and core_usage
\* stay bound to the lists of the finished iteration until lines 631 and 641
\* rebind them
SleepKeep ==
    /\ pc = "sleep"
    /\ pc' = "scan"
    /\ retried' = TRUE
    /\ procs' = <<>>
    /\ seen' = [cores |-> disable_cores, usage |-> core_usage]
    /\ UNCHANGED <<n, cpu, disable_cores, num_logical_core, core_usage, i, ret, err>>
    /\ UNCHANGED <<peers, wrapper>>

\* ------------------------------------------- two instances of the script
\* The catalogue entry of the emulator run_emu starts for a returned triple
\* (lines 268-274: numactl -m {node} -C {start}-{end} ... emu).
PidOf(triple) ==
    CHOOSE pid \in PinnedPids :
        Catalog[pid].cmdline = Pinned(triple[1], triple[2], triple[3])

\* the get_free_cores locals of the instance taking steps
Locals == [pc |-> pc, retried |-> retried, procs |-> procs,
           disable_cores |-> disable_cores, num_logical_core |-> num_logical_core,
           core_usage |-> core_usage, i |-> i, ret |-> ret, err |-> err]

\* the locals of an instance that has not started its first scan
FreshLocals == [pc |-> "scan", retried |-> FALSE, procs |-> <<>>,
                disable_cores |-> {}, num_logical_core |-> 0,
                core_usage |-> <<>>, i |-> -1, ret |-> <<>>, err |-> "none"]

\* lines 631-639 on a host whose pinned processes are the started emulators
ScanRunning == ScanTable(running)

\* lines 269-274 and 315: run_emu formats the numactl prefix from the triple
\* and __exec_cmd starts the emulator, which then shows in the process table
Launch ==
    /\ pc = "done"
    /\ pc' = "launched"
    /\ running' = Append(running, PidOf(ret))
    /\ UNCHANGED <<n, cpu, retried, procs, disable_cores, num_logical_core,
                   core_usage, i, ret, err, me, parked, wrapper, seen>>

\* the operating system lets the other instance run: the two instances are
\* separate processes and share nothing but the host
Switch ==
    /\ parked # <<>>
    /\ me' = 3 - me
    /\ parked' = Locals
    /\ pc' = parked.pc
    /\ retried' = parked.retried
    /\ procs' = parked.procs
    /\ disable_cores' = parked.disable_cores
    /\ num_logical_core' = parked.num_logical_core
    /\ core_usage' = parked.core_usage
    /\ i' = parked.i
    /\ ret' = parked.ret
    /\ err' = parked.err
    /\ UNCHANGED <<n, cpu, running, wrapper, seen>>

\* --------------------------------------- XiangShan.run and what it calls
\* statuses a command ends with: success, failure, killed by a signal
ExitCodes == {0, 1, -9}

\* how proc.wait(self.timeout) of line 317 ends, and the status the command
\* ends with (after the SIGINT of line 322 when it did not end by itself)
Fates == {"exit", "timeout", "interrupt"}

\* the argparse namespace, as far as run and what it calls read it; --ci and
\* --ci-vcs are None, or "" when given without a suite name
ActionFlags == {"generate", "vcs_gen", "build", "vcs_build", "workload", "clean"}

AllArgs == [generate : BOOLEAN, vcs_gen : BOOLEAN, build : BOOLEAN,
            vcs_build : BOOLEAN, workload : BOOLEAN, clean : BOOLEAN,
            ci : {"None", "", "cputest"}, ci_vcs : {"None", ""},
            numa : BOOLEAN, timeout : BOOLEAN, wave : BOOLEAN]

NoFlag(opts) == \A f \in ActionFlags : ~ opts[f]
EveryFlag(opts) == \A f \in ActionFlags : opts[f]

\* command lines without --ci and --ci-vcs: every choice of actions
PlainArgs == { a \in AllArgs : a.ci = "None" /\ a.ci_vcs = "None" /\ ~ a.wave }

\* command lines with --ci, alone or with --ci-vcs and every action flag;
\* --wave-dump comes with a suite name and without --numa
CiArgs == { a \in AllArgs :
              /\ a.ci # "None"
              /\ \/ a.ci_vcs = "None" /\ NoFlag(a)
                 \/ a.ci_vcs # "None" /\ EveryFlag(a) /\ a.ci = ""
              /\ a.wave => a.ci = "cputest" /\ ~ a.numa }

\* command lines with --ci-vcs and no --ci
VcsArgs == { a \in AllArgs :
               /\ a.ci = "None"
               /\ a.ci_vcs # "None"
               /\ ~ a.numa
               /\ NoFlag(a) \/ EveryFlag(a)
               /\ a.wave => NoFlag(a) }

RunArgs == PlainArgs \cup CiArgs \cup VcsArgs

\* the workload lists a suite look-up can return (line 585)
Targets == 1..MaxTargets

Suites == UNION { { q \in [1..k -> Targets] : \A x, y \in 1..k : x # y => q[x] # q[y] } :
                  k \in 0..MaxTargets }

\* what proc.wait can do under these arguments: TimeoutExpired needs --timeout
Outcomes(opts) ==
    { o \in [fate : Fates, code : ExitCodes] : o.fate = "timeout" => opts.timeout }

\* lines 310-324: the value __exec_cmd returns
exec_cmd(o) == IF o.fate = "exit" THEN o.code ELSE 0

\* lines 283-287: the value run_simv returns, given what simv.log holds
run_simv(code, content) ==
    IF content.offending \/ ~ content.good THEN 1 ELSE code

\* a table that builds before it generates
actions_build_first == <<"build", "generate", "vcs_gen", "vcs_build", "workload", "clean">>

\* lines 293-300: the table of actions
actions == <<"generate", "vcs_gen", "build", "vcs_build", "workload", "clean">>

\* line 301: the actions whose flag is set, in the order of the table
valid_actions(opts) == SelectSeq(actions, LAMBDA act : opts[act])

\* the command each action hands to __exec_cmd
Command == [generate |-> "make verilog", vcs_gen |-> "make sim-verilog",
            build |-> "make emu", vcs_build |-> "make simv",
            workload |-> "emu", clean |-> "make clean"]

\* lines 590-594 and 620-623: the files copied to $WAVE_HOME
Copies == [run_ci     |-> <<"*.vcd", "*.fst", "emu", "SimTop.v", "*.db">>,
           run_ci_vcs |-> <<"*.fsdb", "simv", "SimTop.v", "*.db">>]

\* __exec_cmd has run `cmd` (for workload or copy `arg`) and it ended as o
Executed(cmd, arg, o) ==
    /\ log' = Append(log, [cmd |-> cmd, arg |-> arg, ret |-> exec_cmd(o)])
    /\ last' = [fate |-> o.fate, code |-> o.code, ret |-> exec_cmd(o)]

\* lines 289-301: run dispatches on --ci, then --ci-vcs, then the actions
Run ==
    /\ xpc = "run"
    /\ IF args.ci # "None" THEN xpc' = "run_ci" /\ todo' = suite
       ELSE IF args.ci_vcs # "None" THEN xpc' = "run_ci_vcs" /\ todo' = suite
       ELSE xpc' = "actions" /\ todo' = valid_actions(args)
    /\ UNCHANGED <<args, suite, caller, held, kcopy, log, last, result>>
    /\ UNCHANGED <<finder, peers, seen>>

\* lines 302-308: one pass of the loop over valid_actions, or the return 0
\* after it; the workload action enters run_emu
RunAction ==
    /\ xpc = "actions"
    /\ IF todo = <<>>
       THEN /\ result' = 0
            /\ xpc' = "returned"
            /\ UNCHANGED <<todo, caller, log, last>>
       ELSE IF Head(todo) = "workload"
       THEN /\ xpc' = "run_emu"
            /\ caller' = "run"
            /\ UNCHANGED <<todo, log, last, result>>
       ELSE \E o \in Outcomes(args) :
            /\ Executed(Command[Head(todo)], 0, o)
            /\ IF exec_cmd(o) # 0
               THEN result' = exec_cmd(o) /\ xpc' = "returned" /\ todo' = todo
               ELSE result' = result /\ xpc' = "actions" /\ todo' = Tail(todo)
            /\ caller' = caller
    /\ UNCHANGED <<args, suite, held, kcopy>>
    /\ UNCHANGED <<finder, peers, seen>>

\* lines 585-587 and 597: the next workload of the suite, or the return 0
RunCi ==
    /\ xpc = "run_ci"
    /\ IF todo = <<>>
       THEN result' = 0 /\ xpc' = "returned" /\ caller' = caller
       ELSE result' = result /\ xpc' = "run_emu" /\ caller' = "run_ci"
    /\ UNCHANGED <<args, suite, todo, held, kcopy, log, last>>
    /\ UNCHANGED <<finder, peers, seen>>

\* lines 274-275 and what the caller does with run_emu's return value: run
\* (lines 304-306) or run_ci (lines 587-596)
EmuDone(o) ==
    /\ Executed("emu", IF caller = "run" THEN 0 ELSE Head(todo), o)
    /\ caller' = caller
    /\ IF exec_cmd(o) = 0
       THEN /\ todo' = Tail(todo)
            /\ xpc' = IF caller = "run" THEN "actions" ELSE "run_ci"
            /\ UNCHANGED <<held, kcopy, result>>
       ELSE IF caller = "run_ci" /\ args.wave
       THEN /\ held' = exec_cmd(o)
            /\ kcopy' = 0
            /\ xpc' = "copy"
            /\ UNCHANGED <<todo, result>>
       ELSE /\ result' = exec_cmd(o)
            /\ xpc' = "returned"
            /\ UNCHANGED <<todo, held, kcopy>>
    /\ UNCHANGED <<args, suite>>

\* lines 261-275 without --numa
RunEmu ==
    /\ xpc = "run_emu"
    /\ ~ args.numa
    /\ \E o \in Outcomes(args) : EmuDone(o)
    /\ UNCHANGED <<finder, peers, seen>>

\* lines 267-268: run_emu calls get_free_cores(self.args.threads)
CallFreeCores ==
    /\ xpc = "run_emu"
    /\ args.numa
    /\ xpc' = "get_free_cores"
    /\ pc' = "scan"
    /\ UNCHANGED <<n, cpu, retried, procs, disable_cores, num_logical_core,
                   core_usage, i, ret, err>>
    /\ UNCHANGED <<args, suite, todo, caller, held, kcopy, log, last, result>>
    /\ UNCHANGED <<peers, seen>>

\* lines 268-275: get_free_cores has returned, its locals are gone, and the
\* emulator runs under numactl
FreeCoresReturns ==
    /\ xpc = "get_free_cores"
    /\ pc = "done"
    /\ \E o \in Outcomes(args) : EmuDone(o)
    /\ pc' = "idle"
    /\ retried' = FALSE
    /\ procs' = <<>>
    /\ disable_cores' = {}
    /\ num_logical_core' = 0
    /\ core_usage' = <<>>
    /\ i' = -1
    /\ ret' = <<>>
    /\ UNCHANGED <<n, cpu, err>>
    /\ UNCHANGED <<peers, seen>>

\* an exception that leaves get_free_cores is caught nowhere: it leaves
\* run_emu, run_ci or run, and the script
FreeCoresRaises ==
    /\ xpc = "get_free_cores"
    /\ pc = "error"
    /\ xpc' = "raised"
    /\ UNCHANGED <<args, suite, todo, caller, held, kcopy, log, last, result>>
    /\ UNCHANGED <<finder, peers, seen>>

\* lines 615-626: the next workload of the suite on simv, or the return 0
RunCiVcs ==
    /\ xpc = "run_ci_vcs"
    /\ IF todo = <<>>
       THEN /\ result' = 0
            /\ xpc' = "returned"
            /\ UNCHANGED <<todo, caller, held, kcopy, log, last>>
       ELSE \E o \in Outcomes(args), content \in [offending : BOOLEAN, good : BOOLEAN] :
            /\ Executed("simv", Head(todo), o)
            /\ caller' = "run_ci_vcs"
            /\ IF run_simv(exec_cmd(o), content) = 0
               THEN /\ todo' = Tail(todo)
                    /\ xpc' = "run_ci_vcs"
                    /\ UNCHANGED <<held, kcopy, result>>
               ELSE IF args.wave
               THEN /\ held' = run_simv(exec_cmd(o), content)
                    /\ kcopy' = 0
                    /\ xpc' = "copy"
                    /\ UNCHANGED <<todo, result>>
               ELSE /\ result' = run_simv(exec_cmd(o), content)
                    /\ xpc' = "returned"
                    /\ UNCHANGED <<todo, held, kcopy>>
    /\ UNCHANGED <<args, suite>>
    /\ UNCHANGED <<finder, peers, seen>>

\* a copy whose result replaces the code kept for the failed workload
Copy_last ==
    /\ xpc = "copy"
    /\ \E o \in Outcomes(args) :
         /\ Executed("cp", kcopy + 1, o)
         /\ kcopy' = kcopy + 1
         /\ held' = held
         /\ IF kcopy + 1 = Len(Copies[caller])
            THEN result' = exec_cmd(o) /\ xpc' = "returned"
            ELSE result' = result /\ xpc' = "copy"
    /\ UNCHANGED <<args, suite, todo, caller>>
    /\ UNCHANGED <<finder, peers, seen>>

\* lines 591-596 and 621-625: one copy to $WAVE_HOME, its result dropped, and
\* after the last one the return of the failed workload's code
Copy ==
    /\ xpc = "copy"
    /\ \E o \in Outcomes(args) :
         /\ Executed("cp", kcopy + 1, o)
         /\ kcopy' = kcopy + 1
         /\ held' = held
         /\ IF kcopy + 1 = Len(Copies[caller])
            THEN result' = held /\ xpc' = "returned"
            ELSE result' = result /\ xpc' = "copy"
    /\ UNCHANGED <<args, suite, todo, caller>>
    /\ UNCHANGED <<finder, peers, seen>>

\* -------------------------------------------------------- specifications
\* Spec: every per-core reading on the small hosts, pinned emulators only.
MainSamples == IF cpu.logical <= MaxCores THEN Samples(cpu.logical)
               ELSE GroupSamples(cpu.logical, n)

Init == InitWith(Configs \cup BigConfigs)

Next == \/ Scan(PinnedPids)
        \/ Sample(MainSamples)
        \/ Select
        \/ Sleep

Spec == Init /\ [][Next]_vars

\* SpecScan: every kind of process, hosts idle or saturated as a whole.
InitScan == InitWith(Configs)

NextScan == \/ Scan(AllPids)
            \/ Sample(GroupSamples(cpu.logical, cpu.logical))
            \/ Select
            \/ Sleep

SpecScan == InitScan /\ [][NextScan]_vars

\* SpecRetry: the retries, with the lists of the iteration before still bound
\* while the next one starts; an emulator on window [0, 0] and one on [2, 3]
\* come and go between iterations.
RetryPids == {1, 4}

InitRetry == InitWith(Configs)

NextRetry == \/ Scan(RetryPids)
             \/ Sample(GroupSamples(cpu.logical, n))
             \/ Select
             \/ SleepKeep

SpecRetry == InitRetry /\ [][NextRetry]_vars

\* SpecRace: two instances with --numa and the same --threads on one host;
\* the host and window size are those whose pinned command lines the
\* catalogue lists for every window.
RaceConfigs == { c \in Configs : c.host.logical = 4 /\ c.host.phys = 4 /\ c.n = 2 }

InitRace ==
    /\ \E c \in RaceConfigs : n = c.n /\ cpu = c.host
    /\ pc = "scan"
    /\ retried = FALSE
    /\ procs = <<>>
    /\ disable_cores = {}
    /\ num_logical_core = 0
    /\ core_usage = <<>>
    /\ i = -1
    /\ ret = <<>>
    /\ err = "none"
    /\ me = 1
    /\ parked = FreshLocals
    /\ running = <<>>
    /\ NoWrapper
    /\ seen = <<>>

NextRace == \/ ScanRunning
            \/ Sample(GroupSamples(cpu.logical, n))
            \/ Select
            \/ Sleep
            \/ Launch
            \/ Switch

SpecRace == InitRace /\ [][NextRace]_vars

\* SpecRun: the script from xs.run(args) on, on a host with one or two
\* cores and --threads 1; with --numa, run_emu goes through get_free_cores.
RunHosts == { c \in Configs : c.n = 1 /\ c.host.logical <= 2 /\ c.host.phys = c.host.logical }

RunPids == {1}

InitRun ==
    /\ \E a \in RunArgs :
         /\ args = a
         /\ suite \in (IF a.ci # "None" \/ a.ci_vcs # "None" THEN Suites ELSE {<<>>})
         /\ \E c \in RunHosts :
              /\ n = c.n
              /\ cpu = c.host
              /\ ~ a.numa => c.host.phys = 2
    /\ pc = "idle"
    /\ retried = FALSE
    /\ procs = <<>>
    /\ disable_cores = {}
    /\ num_logical_core = 0
    /\ core_usage = <<>>
    /\ i = -1
    /\ ret = <<>>
    /\ err = "none"
    /\ NoPeer
    /\ seen = <<>>
    /\ xpc = "run"
    /\ todo = <<>>
    /\ caller = "none"
    /\ held = 0
    /\ kcopy = 0
    /\ log = <<>>
    /\ last = <<>>
    /\ result = "none"

NextRun == \/ Run
           \/ RunAction
           \/ RunCi
           \/ RunCiVcs
           \/ RunEmu
           \/ CallFreeCores
           \/ Scan(RunPids)
           \/ Sample(GroupSamples(cpu.logical, n))
           \/ Select
           \/ Sleep
           \/ FreeCoresReturns
           \/ FreeCoresRaises
           \/ Copy

SpecRun == InitRun /\ [][NextRun]_vars

\* ------------------------------------------------------------- properties
Returned == pc = "done"

\* the cores of the returned window
RetCores == ret[2]..ret[3]

\* C1: a returned triple (numaNode, start, end) has end - start + 1 = n and
\* 0 <= start <= end < the core count (the count the function partitions, and
\* so also the number of utilisation readings).
C1_WindowShape ==
    Returned =>
        /\ ret[3] - ret[2] + 1 = n
        /\ 0 <= ret[2]
        /\ ret[2] <= ret[3]
        /\ ret[3] < num_logical_core
        /\ ret[3] < cpu.logical

\* a window other than the first one has been returned, ending at the last core
C1_Witness ==
    /\ Returned
    /\ ret[2] > 0
    /\ ret[3] = cpu.phys - 1
    /\ ret[3] - ret[2] + 1 = n

\* C2 (as claimed): get_free_cores never fails; it is polling, sleeping or has
\* returned a triple, and no exception leaves it.
C2_NeverFails ==
    /\ pc \in {"scan", "sample", "select", "sleep", "done"}
    /\ err = "none"

\* the inclusive core ranges the pinned command lines of the catalogue declare
DeclaredRange == << 0..0, 0..1, 1..2, 2..3 >>

\* C3: a returned window contains no core of an inclusive range declared by a
\* pinned process of the same scan; if such a range covers [0, n) the window
\* starts at n or later, and a partly overlapped window is excluded as well.
C3_NoReservedCore ==
    Returned =>
        \A k \in 1..Len(procs) :
            /\ DeclaredRange[procs[k]] \cap RetCores = {}
            /\ (0..(n - 1)) \subseteq DeclaredRange[procs[k]] => ret[2] >= n
            /\ DeclaredRange[procs[k]] \cap (0..(n - 1)) # {} => ret[2] >= n

\* window 0 is reserved only in part, and the window after it was returned
C3_Witness ==
    /\ Returned
    /\ ret[2] = n
    /\ \E k \in 1..Len(procs) : DeclaredRange[procs[k]] \cap (0..(n - 1)) # {}
    /\ \A k \in 1..Len(procs) : ~ ((0..(n - 1)) \subseteq DeclaredRange[procs[k]])

\* window v of this iteration: unreserved, sum of its readings strictly below
\* 30 * n, no reading strictly above 90
Eligible(v) ==
    LET cores == (v * n)..(v * n + n - 1)
    IN  /\ cores \cap disable_cores = {}
        /\ SumOver(core_usage, cores) < 30 * n
        /\ \A k \in cores : core_usage[k] <= 90

\* C4: the window an iteration picks is the lowest-indexed eligible window:
\* it is eligible, no eligible window precedes it, and the iteration goes to
\* sleep only when no window is eligible.
C4_LowestEligible ==
    /\ Returned =>
         /\ ret[2] = i * n
         /\ Eligible(i)
         /\ \A v \in 0..(i - 1) : ~ Eligible(v)
    /\ pc = "error" /\ err = "ZeroDivisionError" =>
         /\ Eligible(i)
         /\ \A v \in 0..(i - 1) : ~ Eligible(v)
    /\ pc = "sleep" => \A v \in 0..((cpu.phys \div n) - 1) : ~ Eligible(v)

\* window 0 is unreserved and rejected only because its sum is exactly 30 * n;
\* window 1 was returned
C4_Witness ==
    /\ Returned
    /\ i = 1
    /\ (0..(n - 1)) \cap disable_cores = {}
    /\ SumOver(core_usage, 0..(n - 1)) = 30 * n
    /\ \A k \in 0..(n - 1) : core_usage[k] <= 90

\* the iteration's sample reads 0 on every CPU
AllIdle == /\ DOMAIN core_usage # {}
           /\ \A k \in DOMAIN core_usage : core_usage[k] = 0

\* the first iteration has picked a window, or has found none
FirstOutcome == ~ retried /\ pc \in {"sleep", "done", "error"}

\* C5 (as claimed): whenever every core's usage is 0, the first iteration
\* does not sleep or retry, and the window it returns is [0, n).
C5_IdleReturnsFirst ==
    FirstOutcome /\ AllIdle =>
        /\ pc # "sleep"
        /\ Returned => ret[2] = 0 /\ ret[3] = n - 1

\* C5 (amended): whenever every core's usage is 0, n is at most the core
\* count and no pinned process of the scan declares a core of [0, n), the
\* first iteration picks window 0 and does not sleep; what it returns is
\* (node, 0, n - 1), and it fails to return only on a one-core host.
C5_IdleUnreservedReturnsFirst ==
    ( /\ FirstOutcome
      /\ AllIdle
      /\ n <= cpu.phys
      /\ \A k \in 1..Len(procs) : DeclaredRange[procs[k]] \cap (0..(n - 1)) = {} )
    => /\ pc # "sleep"
       /\ i = 0
       /\ Returned => ret[2] = 0 /\ ret[3] = n - 1
       /\ ~ Returned => cpu.phys = 1

\* an idle host with a reservation elsewhere returned [0, n) at once
C5_Witness ==
    /\ FirstOutcome
    /\ AllIdle
    /\ Returned
    /\ ret[2] = 0
    /\ ret[3] = n - 1
    /\ procs # <<>>

\* every window of the partition has a reading strictly above 90
EveryWindowBusy ==
    \A v \in 0..((cpu.phys \div n) - 1) :
        \E k \in (v * n)..(v * n + n - 1) : core_usage[k] > 90

\* C6: an iteration in which every window has a core above 90 ends in the
\* sleep without returning; the sleep is followed by a new scan and a new
\* sample, and a return happens only out of an iteration whose own sample
\* has an eligible window, which is the window returned.
C6_SleepAndResample ==
    [][ /\ pc = "select" /\ EveryWindowBusy => pc' = "sleep" /\ ret' = <<>>
        /\ pc = "sleep" => pc' = "scan" /\ core_usage' = <<>> /\ disable_cores' = {}
        /\ pc = "scan" => pc' = "sample"
        /\ pc = "sample" => pc' = "select"
        /\ pc' = "done" =>
             /\ pc = "select"
             /\ ~ EveryWindowBusy
             /\ \E v \in 0..((cpu.phys \div n) - 1) : Eligible(v) /\ ret'[2] = v * n
      ]_vars

\* two or more windows, none reserved, each with a core above 90: asleep
C6_Witness ==
    /\ pc = "sleep"
    /\ cpu.phys \div n >= 2
    /\ disable_cores = {}
    /\ EveryWindowBusy

\* catalogue entries whose command line does not match the pinning pattern,
\* entries of remote-login helpers, entries whose inspection raises
NotPinningPids == 5..8
ExcludedPids   == 9..10
FailingPids    == 11..14

SilentPids == NotPinningPids \cup ExcludedPids

Without(table, pids) == SelectSeq(table, LAMBDA pid : pid \notin pids)

\* C7: a process whose command line does not match the pinning pattern, or
\* matches but belongs to an ssh helper, reserves nothing: every reserved
\* core is declared by some other process of the scan, and with only such
\* processes listed an idle host gives out window 0 at once.
C7_SilentProcesses ==
    /\ \A c \in disable_cores :
         \E k \in 1..Len(procs) : procs[k] \notin SilentPids /\ c \in Reserves[procs[k]]
    /\ disable_cores = ScanCores(Without(procs, SilentPids))
    /\ ( /\ pc \in {"sleep", "done", "error"}
         /\ \A k \in 1..Len(procs) : procs[k] \in SilentPids
         /\ AllIdle
         /\ n <= cpu.phys )
       => pc # "sleep" /\ i = 0

\* window 0 returned although an ssh helper and a non-matching command line
\* name its cores
C7_Witness ==
    /\ Returned
    /\ ret[2] = 0
    /\ \E k \in 1..Len(procs) : procs[k] \in ExcludedPids
    /\ \E k \in 1..Len(procs) : procs[k] \in NotPinningPids

\* C8: a process whose inspection raises NoSuchProcess, AccessDenied or
\* ZombieProcess is skipped: no such exception leaves the function, and the
\* reserved set is the one the scan builds with that process absent.
C8_FailingSkipped ==
    /\ err \notin {"NoSuchProcess", "AccessDenied", "ZombieProcess"}
    /\ pc = "error" => err = "ZeroDivisionError"
    /\ disable_cores = ScanCores(Without(procs, FailingPids))

\* a scan met a failing process and a pinned one; the pinned one's cores are
\* reserved and a later window was returned
C8_Witness ==
    /\ Returned
    /\ ret[2] > 0
    /\ \E k \in 1..Len(procs) : procs[k] \in FailingPids /\ Raised(Catalog[procs[k]]) # "none"
    /\ \E k \in 1..Len(procs) : procs[k] \in PinnedPids /\ 0 \in Reserves[procs[k]]
    /\ 0 \in disable_cores

\* C9: the returned node is floor((start mod cores) / floor(cores / 2)), with
\* cores the count the function partitions; with 64 cores and n = 8, start 40
\* gives node 1 and start 8 gives node 0.
C9_NodeFormula ==
    Returned =>
        /\ ret[1] = (ret[2] % cpu.phys) \div (cpu.phys \div 2)
        /\ cpu.phys = 64 /\ n = 8 /\ ret[2] = 40 => ret[1] = 1
        /\ cpu.phys = 64 /\ n = 8 /\ ret[2] = 8 => ret[1] = 0

\* 64 cores, n = 8: the window starting at 40 was returned with node 1
C9_Witness ==
    /\ Returned
    /\ cpu.phys = 64
    /\ n = 8
    /\ ret = <<1, 40, 47>>

\* C10 (as claimed): the node of every returned triple is 0 or 1.
C10_TwoNodes == Returned => ret[1] \in {0, 1}

\* both instances have started their emulators
BothLaunched == parked # <<>> /\ pc = "launched" /\ parked.pc = "launched"

\* the two returned windows share a core
Overlap == (ret[2]..ret[3]) \cap (parked.ret[2]..parked.ret[3]) # {}

\* C11: two instances can end up pinned to the same window, and nothing but
\* the scan stands in the way: the windows of two started emulators overlap
\* only when each instance made its last scan before the other's command
\* line was in the process table; a step of one instance leaves the other's
\* locals alone, and the process table changes only when an emulator starts.
C11_RaceOnlyBeforeVisible ==
    /\ [](BothLaunched /\ Overlap => procs = <<>> /\ parked.procs = <<>>)
    /\ [][ /\ me' = me => parked' = parked
           /\ me' # me => parked' = Locals /\ running' = running
           /\ running' # running => pc = "done" /\ running' = Append(running, PidOf(ret))
         ]_vars

\* both instances pinned their emulators to the same window
C11_Witness ==
    /\ BothLaunched
    /\ ret = parked.ret
    /\ Len(running) = 2
    /\ running[1] = running[2]

\* the function is somewhere in its polling loop
Polling == pc \in {"scan", "sample", "select", "sleep"}

\* C12 (as claimed): get_free_cores terminates only by returning a window;
\* whenever it has left its polling loop it has returned a triple.
C12_StopsOnlyByReturning ==
    ~ Polling => Returned /\ Len(ret) = 3

\* the cores the processes listed by the current iteration's scan declare
ScannedCores == UNION { DeclaredRange[procs[k]] : k \in DOMAIN procs }

\* window v judged on the current iteration's scan and sample alone
EligibleNow(v) ==
    LET cores == (v * n)..(v * n + n - 1)
    IN  /\ cores \cap ScannedCores = {}
        /\ SumOver(core_usage, cores) < 30 * n
        /\ \A k \in cores : core_usage[k] <= 90

\* C13: every retry starts from an empty reserved set and a new sample: once
\* an iteration has scanned, the reserved set is exactly what that scan's
\* processes declare, and the iteration's outcome (the window returned, or
\* going to sleep) is the one its own scan and sample give, whatever the
\* iteration before had reserved or measured.
C13_OnlyThisIteration ==
    /\ pc \in {"sample", "select", "sleep", "done", "error"} =>
         disable_cores = ScannedCores
    /\ Returned =>
         /\ ret[2] % n = 0
         /\ EligibleNow(ret[2] \div n)
         /\ \A v \in 0..((ret[2] \div n) - 1) : ~ EligibleNow(v)
    /\ pc = "sleep" => \A v \in 0..((cpu.phys \div n) - 1) : ~ EligibleNow(v)

\* a retry returned a window that the iteration before had seen both reserved
\* and saturated
C13_Witness ==
    /\ Returned
    /\ retried
    /\ seen # <<>>
    /\ RetCores \cap seen.cores # {}
    /\ \E k \in RetCores : seen.usage[k] > 90
    /\ ScannedCores # seen.cores

\* the cores after the last whole window of n cores
Trailing == ((cpu.phys \div n) * n)..(cpu.phys - 1)

\* the trailing cores are idle and unreserved, and every core before them is
\* reserved or saturated
OnlyTrailingFree ==
    /\ Trailing # {}
    /\ \A k \in Trailing : core_usage[k] = 0 /\ k \notin disable_cores
    /\ \A k \in 0..(cpu.phys - 1) \ Trailing :
         core_usage[k] > 90 \/ k \in disable_cores

\* C14: a returned window starts at a multiple of n and its index is below
\* floor(cores / n), for the count the function partitions and for the number
\* of CPUs sampled; no core of the trailing partial window is ever returned,
\* and when those cores are the only idle, unreserved ones the iteration
\* sleeps.
C14_WholeWindowsOnly ==
    /\ Returned =>
         /\ ret[2] % n = 0
         /\ ret[2] \div n < cpu.phys \div n
         /\ ret[2] \div n < cpu.logical \div n
         /\ RetCores \cap Trailing = {}
         /\ \A k \in RetCores : k < (cpu.logical \div n) * n
    /\ pc \in {"sleep", "done", "error"} /\ OnlyTrailingFree => pc = "sleep"

\* the iteration went to sleep although the last core, alone in the trailing
\* partial window, was idle and unreserved
C14_Witness ==
    /\ pc = "sleep"
    /\ OnlyTrailingFree
    /\ cpu.phys \div n >= 1
    /\ disable_cores # {}

\* C15 (as claimed): what the wrapper returns for a command is that command's
\* exit code however the wait for it ended, and a command that timed out or
\* was interrupted is not reported as 0.
C15_ExitCodeReported ==
    last # <<>> =>
        /\ last.ret = last.code
        /\ last.fate \in {"timeout", "interrupt"} => last.ret # 0

\* the commands of the six actions in the order the claim gives, and the
\* flag that selects each
FixedOrder == <<"make verilog", "make sim-verilog", "make emu", "make simv",
                "emu", "make clean">>

FlagOf == <<"generate", "vcs_gen", "build", "vcs_build", "workload", "clean">>

Place(cmd) == CHOOSE p \in 1..6 : FixedOrder[p] = cmd

PlainRun == args # <<>> /\ args.ci = "None" /\ args.ci_vcs = "None"

CiRun == args # <<>> /\ args.ci # "None"

\* C16: without --ci and --ci-vcs, run executes selected actions only, in
\* the order generate, vcs-gen, build, vcs-build, workload, clean, skipping
\* none; nothing runs after an action that returned non-zero, that code is
\* what run returns, and run returns 0 only after every selected action
\* has run and returned 0.  With --ci only the suite's emulator runs and
\* their copies are executed, whether or not --ci-vcs and action flags are
\* given.
C16_ActionsInOrder ==
    /\ PlainRun =>
         /\ \A k \in DOMAIN log :
              /\ log[k].cmd \in { FixedOrder[p] : p \in 1..6 }
              /\ args[FlagOf[Place(log[k].cmd)]]
              /\ log[k].arg = 0
              /\ \A j \in 1..(k - 1) : Place(log[j].cmd) < Place(log[k].cmd)
              /\ \A p \in 1..(Place(log[k].cmd) - 1) :
                   args[FlagOf[p]] => \E j \in 1..(k - 1) : log[j].cmd = FixedOrder[p]
         /\ \A k \in 1..(Len(log) - 1) : log[k].ret = 0
         /\ xpc = "returned" =>
              IF result # 0
              THEN log # <<>> /\ result = log[Len(log)].ret
              ELSE \A p \in 1..6 :
                     args[FlagOf[p]] =>
                       \E k \in DOMAIN log : log[k].cmd = FixedOrder[p] /\ log[k].ret = 0
    /\ CiRun =>
         /\ xpc \in {"run", "run_ci", "run_emu", "get_free_cores", "copy",
                     "returned", "raised"}
         /\ caller \in {"none", "run_ci"}
         /\ \A k \in DOMAIN log :
              \/ log[k].cmd = "cp"
              \/ log[k].cmd = "emu" /\ \E t \in DOMAIN suite : suite[t] = log[k].arg

\* run returned the signal status of its second action, with a selected
\* action after it that never ran
C16_Witness ==
    /\ PlainRun
    /\ xpc = "returned"
    /\ result = -9
    /\ Len(log) = 2
    /\ log[1].cmd = "make sim-verilog"
    /\ log[2].cmd = "emu"
    /\ ~ args.generate
    /\ args.clean

\* the emulator runs and the copies among the executed commands
EmuRuns == SelectSeq(log, LAMBDA e : e.cmd = "emu")

CpRuns == SelectSeq(log, LAMBDA e : e.cmd = "cp")

\* C17: run_ci starts the suite's workloads one at a time in list order; no
\* workload starts after one whose emulator returned non-zero, and that code
\* is what run_ci returns whatever the copies return; it returns 0 only
\* after every workload returned 0; copies are made only after a failure
\* and only when the wave directory is not the default one.
C17_SuiteInOrder ==
    CiRun =>
        /\ Len(EmuRuns) <= Len(suite)
        /\ \A k \in DOMAIN EmuRuns : EmuRuns[k].arg = suite[k]
        /\ \A k \in 1..(Len(EmuRuns) - 1) : EmuRuns[k].ret = 0
        /\ \A j, k \in DOMAIN log : j < k /\ log[j].cmd = "cp" => log[k].cmd = "cp"
        /\ CpRuns # <<>> => args.wave /\ EmuRuns[Len(EmuRuns)].ret # 0
        /\ xpc = "returned" =>
             IF result # 0
             THEN /\ EmuRuns # <<>>
                  /\ result = EmuRuns[Len(EmuRuns)].ret
                  /\ Len(CpRuns) = IF args.wave THEN 5 ELSE 0
                  /\ \A k \in DOMAIN CpRuns : CpRuns[k].arg = k
             ELSE /\ Len(EmuRuns) = Len(suite)
                  /\ \A k \in DOMAIN EmuRuns : EmuRuns[k].ret = 0
                  /\ CpRuns = <<>>

\* the second workload of a three-workload suite failed, the third never
\* started, and run_ci returned the failure's code although copies failed
\* and the last copy returned 0
C17_Witness ==
    /\ CiRun
    /\ xpc = "returned"
    /\ result = 1
    /\ Len(suite) = 3
    /\ suite[1] > suite[2]
    /\ Len(EmuRuns) = 2
    /\ Len(CpRuns) = 5
    /\ CpRuns[1].ret = -9
    /\ CpRuns[5].ret = 0

=============================================================================
